---- MODULE Spec2Model ----
(***************************************************************************)
(* Model of swiftide-integrations/src/anthropic/chat_completion.rs:        *)
(* Anthropic::complete and its two translators, message_to_antropic and    *)
(* tools_to_anthropic.                                                     *)
(*                                                                         *)
(* Values of the async_anthropic and serde_json crates are modelled as     *)
(* tagged records: an Option is None / Some(v), a serde_json::Value is     *)
(* JNull / JString / JArray / JObject.  A JSON object is the sequence of   *)
(* its entries, so that an object and an array are different values and    *)
(* its serialization is defined.                                           *)
(***************************************************************************)
EXTENDS Integers, Sequences, FiniteSets, TLC

VARIABLES
    request,            \* the ChatCompletionRequest passed to complete()
    pc,                 \* position of complete()
    messages,           \* line 27: the vendor messages collected so far
    anthropic_request,  \* line 33: the CreateMessagesRequestBuilder
    tools,              \* line 41: the tool descriptors collected so far
    pending,            \* tool specs the HashSet iterator has not yielded yet
    vendor_request,     \* line 50: the built CreateMessagesRequest
    sent,               \* requests handed to client.messages().create()
    vendor,             \* what the vendor answers to a create-message call
    response,           \* line 60: the vendor's response
    result              \* what complete() returned

vars == <<request, pc, messages, anthropic_request, tools, pending,
          vendor_request, sent, vendor, response, result>>

----------------------------------------------------------------------------
(* Bounds of the model *)

MaxMsgs == 2
MaxCalls == 2
MaxParams == 3
MaxBlocks == 3

----------------------------------------------------------------------------
(* Option, Result and serde_json::Value *)

None == [some |-> FALSE]
Some(v) == [some |-> TRUE, val |-> v]

Ok(v) == [ok |-> TRUE, val |-> v]
Err(e) == [ok |-> FALSE, err |-> e]

JNull == [kind |-> "null"]
JString(s) == [kind |-> "string", str |-> s]
JArray(items) == [kind |-> "array", items |-> items]
JObject(entries) == [kind |-> "object", entries |-> entries]
Entry(k, v) == [key |-> k, value |-> v]

\* Value::as_object: Some(map) for an object, None for anything else
as_object(v) == IF v.kind = "object" THEN Some(v) ELSE None

\* impl From<Option<&str>> for Value: Some(s) is Value::String(s), None is Null
ValueFromOptStr(o) == IF o.some THEN JString(o.val) ELSE JNull

RECURSIVE JsonToString(_)
RECURSIVE JoinEntries(_)
\* the entries of an object, comma separated, each "key":value
JoinEntries(entries) ==
    IF entries = <<>> THEN ""
    ELSE LET e == Head(entries)
             one == "\"" \o e.key \o "\":" \o JsonToString(e.value)
         IN IF Len(entries) = 1 THEN one
            ELSE one \o "," \o JoinEntries(Tail(entries))

RECURSIVE JoinItems(_)
JoinItems(items) ==
    IF items = <<>> THEN ""
    ELSE IF Len(items) = 1 THEN JsonToString(Head(items))
    ELSE JsonToString(Head(items)) \o "," \o JoinItems(Tail(items))

\* Value::to_string: the compact JSON text of a value (the strings of the
\* model hold no character that JSON escapes)
JsonToString(v) ==
    CASE v.kind = "null" -> "null"
      [] v.kind = "string" -> "\"" \o v.str \o "\""
      [] v.kind = "array" -> "[" \o JoinItems(v.items) \o "]"
      [] v.kind = "object" -> "{" \o JoinEntries(v.entries) \o "}"

\* the value of key k of a JSON object
Get(obj, k) ==
    LET i == CHOOSE j \in 1..Len(obj.entries) : obj.entries[j].key = k
    IN obj.entries[i].value

SeqsUpTo(S, n) == UNION {[1..k -> S] : k \in 0..n}

----------------------------------------------------------------------------
(* swiftide_core::chat_completion: ChatMessage, ToolCall, ToolOutput,      *)
(* ToolSpec, ParamSpec                                                     *)

ToolCall(id, name, args) == [id |-> id, name |-> name, args |-> args]

User(msg) == [variant |-> "User", msg |-> msg]
System(msg) == [variant |-> "System", msg |-> msg]
Summary(msg) == [variant |-> "Summary", msg |-> msg]
Assistant(msg, tool_calls) ==
    [variant |-> "Assistant", msg |-> msg, tool_calls |-> tool_calls]
\* a ToolOutput is modelled by what its content() returns
ToolOutput(tool_call, content) ==
    [variant |-> "ToolOutput", tool_call |-> tool_call,
     tool_output |-> [content |-> content]]

ParamSpec(name, description, required) ==
    [name |-> name, description |-> description, required |-> required]
ToolSpec(name, description, parameters) ==
    [name |-> name, description |-> description, parameters |-> parameters]

----------------------------------------------------------------------------
(* async_anthropic::types: MessageContent blocks and Message               *)

Text(text) == [type |-> "text", text |-> text]
ToolUse(id, name, input) ==
    [type |-> "tool_use", id |-> id, name |-> name, input |-> input]
ToolResult(tool_use_id, content) ==
    [type |-> "tool_result", tool_use_id |-> tool_use_id, content |-> content]
Message(role, content) == [role |-> role, content |-> content]

----------------------------------------------------------------------------
(* message_to_antropic, lines 100-141 *)

\* lines 124-128: the tool-use block of one tool call of an Assistant message
ToolUseBlock(tool_call) ==
    ToolUse(tool_call.id, tool_call.name, ValueFromOptStr(tool_call.args))

\* AssistantContent with the text block pushed after the tool-use blocks
AssistantContentTextLast(msg, tool_calls) ==
    (IF tool_calls.some
     THEN [i \in 1..Len(tool_calls.val) |-> ToolUseBlock(tool_calls.val[i])]
     ELSE <<>>)
    \o (IF msg.some THEN <<Text(msg.val)>> ELSE <<>>)

\* lines 116-134: the content list of an Assistant message
AssistantContent(msg, tool_calls) ==
    (IF msg.some THEN <<Text(msg.val)>> ELSE <<>>)
    \o (IF tool_calls.some
        THEN [i \in 1..Len(tool_calls.val) |-> ToolUseBlock(tool_calls.val[i])]
        ELSE <<>>)

\* ToolResultBlock with an empty string for a missing output
ToolResultBlockEmptyDefault(tool_call, tool_output) ==
    ToolResult(tool_call.id,
               IF tool_output.content.some THEN tool_output.content.val
               ELSE "")

\* lines 107-110: the tool-result block of a ToolOutput message
ToolResultBlock(tool_call, tool_output) ==
    ToolResult(tool_call.id,
               IF tool_output.content.some THEN tool_output.content.val
               ELSE "Success")

\* lines 101, 114: the role the builder holds when it is built
RoleOf(message) ==
    IF message.variant = "Assistant" THEN "assistant" ELSE "user"

\* lines 105-138: the content handed to the MessageBuilder
ContentOf(message) ==
    CASE message.variant = "ToolOutput" ->
            <<ToolResultBlock(message.tool_call, message.tool_output)>>
      [] message.variant \in {"Summary", "System", "User"} ->
            <<Text(message.msg)>>
      [] message.variant = "Assistant" ->
            AssistantContent(message.msg, message.tool_calls)

\* lines 100-141.  `builds` is the verdict of the async_anthropic builders
\* (ToolResultBuilder, ToolUseBuilder, MessageBuilder), whose `?` results the
\* function propagates.
message_to_antropic(message, builds) ==
    IF builds THEN Ok(Message(RoleOf(message), ContentOf(message)))
    ELSE Err("Failed to build message")

----------------------------------------------------------------------------
(* tools_to_anthropic, lines 143-177 *)

\* lines 150-160: the single-entry object of one parameter
PropertyOf(param) ==
    LET map == as_object(JObject(<<
            Entry(param.name, JObject(<<
                Entry("type", JString("string")),
                Entry("description", JString(param.description))>>))>>))
    IN IF map.some THEN Ok(map.val) ELSE Err("Failed to build tool")

\* RequiredNames without the filter on the required flag
RequiredNamesUnfiltered(parameters) ==
    [i \in 1..Len(parameters) |-> parameters[i].name]

\* line 170: the names of the parameters flagged required
RequiredNames(parameters) ==
    LET F[i \in 0..Len(parameters)] ==
            IF i = 0 THEN <<>>
            ELSE IF parameters[i].required
                 THEN Append(F[i - 1], parameters[i].name)
                 ELSE F[i - 1]
    IN F[Len(parameters)]

\* lines 143-177
tools_to_anthropic(spec) ==
    LET collected == [i \in 1..Len(spec.parameters) |->
                          PropertyOf(spec.parameters[i])]
    IN IF \E i \in 1..Len(collected) : ~collected[i].ok
       THEN Err("Failed to build tool")
       ELSE LET properties == [i \in 1..Len(collected) |-> collected[i].val]
                required == RequiredNames(spec.parameters)
                map == as_object(JObject(<<
                    Entry("name", JString(spec.name)),
                    Entry("description", JString(spec.description)),
                    Entry("input_schema", JObject(<<
                        Entry("type", JString("object")),
                        Entry("properties", JArray(properties))>>)),
                    Entry("required", JArray(
                        [i \in 1..Len(required) |-> JString(required[i])]))>>))
            IN IF map.some THEN Ok(map.val) ELSE Err("Failed to build tool")

----------------------------------------------------------------------------
(* the response mapping of complete(), lines 72-95 *)

\* CreateMessagesResponse::messages, used at lines 73 and 92: one assistant
\* message per content block of the response
ResponseMessages(resp) ==
    [i \in 1..Len(resp.content) |-> Message("assistant", <<resp.content[i]>>)]

\* Message::tool_uses, used at line 75
tool_uses(message) == SelectSeq(message.content, LAMBDA c : c.type = "tool_use")

\* Message::text, used at line 92: the first text of the message, if any
text(message) ==
    LET texts == SelectSeq(message.content, LAMBDA c : c.type = "text")
    IN IF texts = <<>> THEN None ELSE Some(texts[1].text)

\* lines 76-83: the ToolCall built from one tool-use block
ToolCallOf(atool) == ToolCall(atool.id, atool.name, Some(JsonToString(atool.input)))

\* lines 72-84: flat_map over the messages, then map and collect
CollectToolCalls(resp) ==
    LET ms == ResponseMessages(resp)
        F[i \in 0..Len(ms)] ==
            IF i = 0 THEN <<>>
            ELSE F[i - 1] \o [j \in 1..Len(tool_uses(ms[i])) |->
                                  ToolCallOf(tool_uses(ms[i])[j])]
    IN F[Len(ms)]

\* MaybeToolCalls without the is_empty test
MaybeToolCallsAlwaysSome(collected) == Some(collected)

\* lines 85-89
MaybeToolCalls(collected) ==
    IF collected = <<>> THEN None ELSE Some(collected)

\* FirstText taking the last text block instead of the first
LastText(resp) ==
    LET texts == SelectSeq(resp.content, LAMBDA c : c.type = "text")
    IN IF texts = <<>> THEN None ELSE Some(texts[Len(texts)].text)

\* line 92: find_map(Message::text) over the messages
FirstText(resp) ==
    LET ms == ResponseMessages(resp)
        hits == {i \in 1..Len(ms) : text(ms[i]).some}
    IN IF hits = {} THEN None
       ELSE text(ms[CHOOSE i \in hits : \A j \in hits : i <= j])

\* lines 91-94: the ChatCompletionResponse handed to the builder
ResponseOf(resp) ==
    [message |-> FirstText(resp),
     tool_calls |-> MaybeToolCalls(CollectToolCalls(resp))]

----------------------------------------------------------------------------
(* Inputs *)

Texts == {"hello", "mocked response"}
Ids == {"X", "Y"}
Names == {"get_weather", "search"}
Args == {None, Some("{\"location\":\"SF\"}")}
ToolCalls == {ToolCall(id, name, args) : id \in Ids, name \in Names, args \in Args}
Outputs == {None, Some("sunny"), Some("")}

ChatMessages ==
    {User(t) : t \in Texts} \cup {System(t) : t \in Texts}
    \cup {Summary(t) : t \in Texts}
    \cup {Assistant(m, c) :
            m \in {None} \cup {Some(t) : t \in Texts},
            c \in {None} \cup {Some(cs) : cs \in SeqsUpTo(ToolCalls, MaxCalls)}}
    \cup {ToolOutput(tc, o) : tc \in ToolCalls, o \in Outputs}

ParamSpecs ==
    {ParamSpec(n, d, r) : n \in {"location", "unit", "days"},
                          d \in {"Location"}, r \in BOOLEAN}
\* parameter lists with pairwise different names
ParamLists ==
    {ps \in SeqsUpTo(ParamSpecs, MaxParams) :
        \A i, j \in 1..Len(ps) : ps[i].name = ps[j].name => i = j}
ToolSpecs ==
    {ToolSpec(n, "Gets the weather", ps) : n \in Names, ps \in ParamLists}

\* FakeTool::tool_spec, lines 213-225
FakeToolSpec ==
    ToolSpec("get_weather", "Gets the weather",
             <<ParamSpec("location", "Location", TRUE)>>)
SearchToolSpec ==
    ToolSpec("search", "Searches",
             <<ParamSpec("query", "Query", FALSE), ParamSpec("days", "Days", TRUE)>>)

WeatherCall == ToolCall("X", "get_weather", Some("{\"location\":\"SF\"}"))

\* one conversation message of every shape, for the runs of complete()
FlowMessages ==
    {User("hello"), System("be brief"), Summary("so far"),
     Assistant(Some("checking"), Some(<<WeatherCall>>)),
     Assistant(None, None),
     ToolOutput(WeatherCall, None)}

ChatCompletionRequest(ms, ts) == [messages |-> ms, tools_spec |-> ts]

FlowRequests ==
    {ChatCompletionRequest(ms, ts) :
        ms \in SeqsUpTo(FlowMessages, MaxMsgs),
        ts \in SUBSET {FakeToolSpec, SearchToolSpec}}

ResponseBlocks ==
    {Text("mocked response"), Text("more"),
     ToolUse("X", "get_weather", JObject(<<Entry("location", JString("SF"))>>)),
     ToolUse("Y", "search", JNull),
     ToolUse("Z", "search", JObject(<<Entry("n", JString("1")),
                                      Entry("q", JArray(<<JString("a"), JNull>>))>>))}
CreateMessagesResponse(content) == [content |-> content]
Responses == {CreateMessagesResponse(c) : c \in SeqsUpTo(ResponseBlocks, MaxBlocks)}

\* the responses of the two tests, lines 234-236 and 275-298
FlowReplies ==
    {Err("vendor"),
     Ok(CreateMessagesResponse(<<Text("mocked response")>>)),
     Ok(CreateMessagesResponse(
            <<Text("mocked response"),
              ToolUse("X", "get_weather",
                      JObject(<<Entry("location", JString("SF"))>>))>>))}

----------------------------------------------------------------------------
(* complete(), lines 21-96 *)

Start(req, reply) ==
    /\ request = req
    /\ vendor = reply
    /\ pc = "translate_messages"
    /\ messages = <<>>
    /\ anthropic_request = None
    /\ tools = <<>>
    /\ pending = req.tools_spec
    /\ vendor_request = None
    /\ sent = <<>>
    /\ response = None
    /\ result = None

Init == \E req \in FlowRequests, reply \in FlowReplies : Start(req, reply)

\* Collect pushing at the front
CollectFront(acc, item) == <<item>> \o acc

\* line 31 and line 45: collect pushes the next Ok item
Collect(acc, item) == Append(acc, item)

\* MessagesDone for an iterator that stops after the first message
MessagesDoneEarly == Len(messages) >= 1 \/ Len(request.messages) = 0

\* line 31: the iterator over request.messages() is exhausted
MessagesDone == Len(messages) = Len(request.messages)

\* HasTools without the is_empty test
HasToolsAlways(req) == TRUE

\* line 38
HasTools(req) == req.tools_spec # {}

\* lines 27-31, one message: map(message_to_antropic), and collect stops at
\* the first Err, which `?` returns
TranslateMessage ==
    /\ pc = "translate_messages"
    /\ ~MessagesDone
    /\ \E builds \in BOOLEAN :
          LET r == message_to_antropic(request.messages[Len(messages) + 1], builds)
          IN IF r.ok
             THEN /\ messages' = Collect(messages, r.val)
                  /\ UNCHANGED <<pc, result>>
             ELSE /\ pc' = "error"
                  /\ result' = Some(Err(r.err))
                  /\ UNCHANGED messages
    /\ UNCHANGED <<request, anthropic_request, tools, pending, vendor_request,
                   sent, vendor, response>>

\* lines 33-38: the builder gets the model and the collected messages
NewRequestBuilder ==
    /\ pc = "translate_messages"
    /\ MessagesDone
    /\ anthropic_request' =
          Some([model |-> "prompt_model", messages |-> messages,
                tools |-> None, tool_choice |-> None])
    /\ pc' = IF HasTools(request) THEN "translate_tools" ELSE "build"
    /\ UNCHANGED <<request, messages, tools, pending, vendor_request, sent,
                   vendor, response, result>>

\* lines 41-45, one tool spec: the HashSet yields its specs in any order
TranslateTool ==
    /\ pc = "translate_tools"
    /\ pending # {}
    /\ \E spec \in pending :
          LET r == tools_to_anthropic(spec)
          IN IF r.ok
             THEN /\ tools' = Collect(tools, r.val)
                  /\ pending' = pending \ {spec}
                  /\ UNCHANGED <<pc, result>>
             ELSE /\ pc' = "error"
                  /\ result' = Some(Err(r.err))
                  /\ UNCHANGED <<tools, pending>>
    /\ UNCHANGED <<request, messages, anthropic_request, vendor_request, sent,
                   vendor, response>>

\* lines 39-47: .tools(collected).tool_choice(ToolChoice::Auto)
SetTools ==
    /\ pc = "translate_tools"
    /\ pending = {}
    /\ anthropic_request' =
          Some([anthropic_request.val EXCEPT !.tools = Some(tools),
                                             !.tool_choice = Some("Auto")])
    /\ pc' = "build"
    /\ UNCHANGED <<request, messages, tools, pending, vendor_request, sent,
                   vendor, response, result>>

\* lines 50-52: build() of the request builder, whose error maps to LLM
Build ==
    /\ pc = "build"
    /\ \E builds \in BOOLEAN :
          IF builds
          THEN /\ vendor_request' = anthropic_request
               /\ pc' = "create"
               /\ UNCHANGED result
          ELSE /\ pc' = "error"
               /\ result' = Some(Err("LLM"))
               /\ UNCHANGED vendor_request
    /\ UNCHANGED <<request, messages, anthropic_request, tools, pending, sent,
                   vendor, response>>

\* Create calling again after a failed call
CreateRetrying ==
    /\ pc = "create"
    /\ sent' = Append(sent, vendor_request.val)
    /\ IF vendor.ok
       THEN /\ response' = Some(vendor.val)
            /\ pc' = "respond"
       ELSE UNCHANGED <<pc, response>>
    /\ UNCHANGED <<request, messages, anthropic_request, tools, pending,
                   vendor_request, vendor, result>>

\* lines 60-65: the one create-message call and its `?`
Create ==
    /\ pc = "create"
    /\ sent' = Append(sent, vendor_request.val)
    /\ IF vendor.ok
       THEN /\ response' = Some(vendor.val)
            /\ pc' = "respond"
            /\ UNCHANGED result
       ELSE /\ pc' = "error"
            /\ result' = Some(Err("LLM"))
            /\ UNCHANGED response
    /\ UNCHANGED <<request, messages, anthropic_request, tools, pending,
                   vendor_request, vendor>>

\* lines 72-95: the response mapping and the build of the result
TranslateResponse ==
    /\ pc = "respond"
    /\ \E builds \in BOOLEAN :
          IF builds
          THEN /\ result' = Some(Ok(ResponseOf(response.val)))
               /\ pc' = "done"
          ELSE /\ result' = Some(Err("builder"))
               /\ pc' = "error"
    /\ UNCHANGED <<request, messages, anthropic_request, tools, pending,
                   vendor_request, sent, vendor, response>>

Next ==
    \/ TranslateMessage
    \/ NewRequestBuilder
    \/ TranslateTool
    \/ SetTools
    \/ Build
    \/ Create
    \/ TranslateResponse

Spec == Init /\ [][Next]_vars

\* message_to_antropic alone: complete() on every one-message conversation,
\* up to the end of line 31
InitMessage ==
    \E m \in ChatMessages :
        Start(ChatCompletionRequest(<<m>>, {}), Err("vendor"))
NextMessage == TranslateMessage
SpecMessage == InitMessage /\ [][NextMessage]_vars

\* tools_to_anthropic alone: complete() on every one-tool request, up to the
\* end of line 48
InitTools ==
    \E spec \in ToolSpecs :
        Start(ChatCompletionRequest(<<>>, {spec}), Err("vendor"))
NextTools ==
    \/ NewRequestBuilder
    \/ TranslateTool
    \/ SetTools
SpecTools == InitTools /\ [][NextTools]_vars

\* the response mapping: the request of test_complete_with_tools (lines
\* 318-322) against every vendor response
InitResponse ==
    \E resp \in Responses :
        Start(ChatCompletionRequest(<<User("hello")>>, {FakeToolSpec}), Ok(resp))
SpecResponse == InitResponse /\ [][Next]_vars

----------------------------------------------------------------------------
(* Claims *)

IsToolUse(c) == c.type = "tool_use"
IsText(c) == c.type = "text"
Returned == pc = "done" /\ result.some /\ result.val.ok

\* C1: the result's tool_calls is None exactly when the response holds no
\* tool-use block; otherwise it is a non-empty list with one ToolCall per
\* tool-use block, in response order, with the block's id and name and with
\* args the JSON text of the block's input.  It is never Some(<<>>).
C1_ToolCallsMirrorToolUses ==
    Returned =>
        LET blocks == SelectSeq(response.val.content, IsToolUse)
            tc == result.val.val.tool_calls
        IN /\ ~tc.some <=> blocks = <<>>
           /\ tc.some =>
                /\ Len(tc.val) = Len(blocks)
                /\ Len(tc.val) > 0
                /\ \A i \in 1..Len(blocks) :
                      /\ tc.val[i].id = blocks[i].id
                      /\ tc.val[i].name = blocks[i].name
                      /\ tc.val[i].args = Some(JsonToString(blocks[i].input))
                      /\ blocks[i].id = "X" =>
                            tc.val[i].args = Some("{\"location\":\"SF\"}")
                      /\ blocks[i].id = "Y" => tc.val[i].args = Some("null")
                      /\ blocks[i].id = "Z" =>
                            tc.val[i].args = Some("{\"n\":\"1\",\"q\":[\"a\",null]}")

\* two different tool-use blocks around a text block, returned in order
C1_Witness ==
    /\ Returned
    /\ Len(response.val.content) = 3
    /\ response.val.content[1].type = "tool_use"
    /\ response.val.content[1].id = "Z"
    /\ response.val.content[2].type = "text"
    /\ response.val.content[3].type = "tool_use"
    /\ response.val.content[3].id = "X"
    /\ Len(result.val.val.tool_calls.val) = 2

\* C2: the result's message is the text of the first text block of the
\* response, whatever follows it and wherever the tool-use blocks sit, and it
\* is None exactly when the response holds no text block.
C2_MessageIsFirstText ==
    Returned =>
        LET content == response.val.content
            at == {i \in 1..Len(content) : IsText(content[i])}
            message == result.val.val.message
        IN /\ ~message.some <=> at = {}
           /\ \A i \in at :
                 (\A j \in at : i <= j) => message = Some(content[i].text)

\* a tool-use block first, then two different text blocks
C2_Witness ==
    /\ Returned
    /\ Len(response.val.content) = 3
    /\ response.val.content[1].type = "tool_use"
    /\ response.val.content[2] = Text("more")
    /\ response.val.content[3] = Text("mocked response")
    /\ result.val.val.message = Some("more")

\* C3: the built vendor request has tools and tool_choice set exactly when
\* the request's tool-spec set is not empty: with an empty set both are
\* unset; otherwise tools holds one descriptor per tool spec and tool_choice
\* is Auto.
C3_ToolsIffToolSpecs ==
    vendor_request.some =>
        LET r == vendor_request.val
        IN IF request.tools_spec = {}
           THEN ~r.tools.some /\ ~r.tool_choice.some
           ELSE /\ r.tools.some
                /\ Len(r.tools.val) = Cardinality(request.tools_spec)
                /\ {Get(r.tools.val[i], "name").str : i \in 1..Len(r.tools.val)}
                      = {s.name : s \in request.tools_spec}
                /\ r.tool_choice = Some("Auto")

C3_Witness ==
    /\ vendor_request.some
    /\ Cardinality(request.tools_spec) = 2
    /\ Len(vendor_request.val.tools.val) = 2

\* the tool spec a collected descriptor comes from (names are unique in a set)
SpecOf(descriptor) ==
    CHOOSE s \in request.tools_spec : s.name = Get(descriptor, "name").str

\* C4: the descriptor's input_schema has type "object" and its properties is
\* one mapping keyed by parameter name, each parameter name of the spec
\* mapped to {type: "string", description: the parameter's description}, with
\* no other key.
C4_PropertiesKeyedByName ==
    \A i \in 1..Len(tools) :
        LET schema == Get(tools[i], "input_schema")
            props == Get(schema, "properties")
            params == SpecOf(tools[i]).parameters
        IN /\ Get(schema, "type") = JString("object")
           /\ props.kind = "object"
           /\ {props.entries[j].key : j \in 1..Len(props.entries)}
                 = {params[j].name : j \in 1..Len(params)}
           /\ Len(props.entries) = Len(params)
           /\ \A j \in 1..Len(params) :
                 Get(props, params[j].name) =
                    JObject(<<Entry("type", JString("string")),
                              Entry("description", JString(params[j].description))>>)

\* C5: the descriptor's required list holds exactly the names of the
\* parameters whose required flag is true, in declaration order.
C5_RequiredListsRequiredParams ==
    \A i \in 1..Len(tools) :
        LET required == Get(tools[i], "required")
            params == SpecOf(tools[i]).parameters
            pos(n) == CHOOSE j \in 1..Len(params) : params[j].name = n
        IN /\ required.kind = "array"
           /\ \A a \in 1..Len(required.items) :
                 /\ required.items[a].kind = "string"
                 /\ \E j \in 1..Len(params) :
                       params[j].name = required.items[a].str /\ params[j].required
           /\ \A j \in 1..Len(params) :
                 params[j].required =>
                    \E a \in 1..Len(required.items) :
                        required.items[a] = JString(params[j].name)
           /\ \A a, b \in 1..Len(required.items) :
                 a < b => pos(required.items[a].str) < pos(required.items[b].str)

\* a required, an optional and a required parameter
C5_Witness ==
    /\ Len(tools) = 1
    /\ LET params == SpecOf(tools[1]).parameters
       IN /\ Len(params) = 3
          /\ params[1].required /\ ~params[2].required /\ params[3].required
    /\ Len(Get(tools[1], "required").items) = 2

C6_EmptyAssistantBuilt ==
    /\ Len(messages) = 1
    /\ request.messages[1] = Assistant(None, None)
    /\ messages[1].content = <<>>

\* C7: a ToolOutput message translates to one tool-result block tagged with
\* the call's id, whose content is "Success" when the tool gave no output and
\* the output text otherwise.
C7_ToolResultContent ==
    \A i \in 1..Len(messages) :
        LET m == request.messages[i]
            out == messages[i]
        IN m.variant = "ToolOutput" =>
              /\ Len(out.content) = 1
              /\ out.content[1].type = "tool_result"
              /\ out.content[1].tool_use_id = m.tool_call.id
              /\ out.content[1].content =
                    (IF m.tool_output.content.some
                     THEN m.tool_output.content.val ELSE "Success")
              /\ ~m.tool_output.content.some => out.content[1].content = "Success"

C7_Witness ==
    /\ Len(messages) = 1
    /\ request.messages[1].variant = "ToolOutput"
    /\ ~request.messages[1].tool_output.content.some
    /\ messages[1].content[1].content = "Success"

\* C8: the built vendor request has one message per conversation message, at
\* the same position, with role "assistant" exactly for the Assistant
\* messages and "user" for the others.
C8_MessagesInOrder ==
    vendor_request.some =>
        LET out == vendor_request.val.messages
        IN /\ Len(out) = Len(request.messages)
           /\ \A i \in 1..Len(out) :
                 LET m == request.messages[i]
                 IN /\ out[i].role = "assistant" <=> m.variant = "Assistant"
                    /\ out[i].role = "user" <=>
                          m.variant \in {"User", "System", "Summary", "ToolOutput"}
                    /\ out[i] = message_to_antropic(m, TRUE).val

C8_Witness ==
    /\ vendor_request.some
    /\ Len(request.messages) = 2
    /\ request.messages[1].variant = "Assistant"
    /\ request.messages[2].variant = "ToolOutput"

\* C9: the create-message call is issued only with the built request, after
\* every message and every tool spec was translated; when a translation or
\* the build fails, complete() returns an error and nothing is sent.
C9_NoPartialRequest ==
    /\ \A k \in 1..Len(sent) :
          /\ vendor_request = Some(sent[k])
          /\ Len(sent[k].messages) = Len(request.messages)
          /\ request.tools_spec # {} =>
                /\ sent[k].tools.some
                /\ Len(sent[k].tools.val) = Cardinality(request.tools_spec)
    /\ (pc = "error" /\ ~vendor_request.some) =>
          /\ sent = <<>>
          /\ result.some /\ ~result.val.ok

\* the second of two messages failed to build: one message is translated,
\* nothing is sent
C9_Witness ==
    /\ pc = "error"
    /\ Len(request.messages) = 2
    /\ Len(messages) = 1
    /\ result = Some(Err("Failed to build message"))
    /\ sent = <<>>

\* C10: the create-message call is issued at most once; when it fails,
\* complete() has returned an error without a response, and a response is
\* returned only after one successful call.
C10_OneVendorCall ==
    /\ Len(sent) <= 1
    /\ (sent # <<>> /\ ~vendor.ok) =>
          /\ pc = "error"
          /\ result = Some(Err("LLM"))
          /\ ~response.some
    /\ (result.some /\ result.val.ok) =>
          /\ Len(sent) = 1
          /\ vendor.ok
          /\ response = Some(vendor.val)

C10_Witness ==
    /\ Len(sent) = 1
    /\ ~vendor.ok
    /\ pc = "error"

====
